---- MODULE Spec2Model ----
(***************************************************************************)
(* A model of datacompy/sf_table.py: TableCompare (construction, outer     *)
(* join of two tables on the join columns, per-column comparison and       *)
(* statistics) and the module-level helpers columns_equal, _is_comparable  *)
(* and _generate_id_within_group.                                          *)
(*                                                                         *)
(* Conventions.                                                            *)
(*  - A cell value is a record [kind, num, txt]: NULL, a number Num(n), or *)
(*    a text Str(s) with s a sequence of text pieces; the piece " " is     *)
(*    whitespace.  Values of date, timestamp and other non-numeric types   *)
(*    are modelled by their text form, which holds no whitespace.          *)
(*  - A SQL boolean is one of "true", "false", "null" (three-valued).      *)
(*  - A type name is the sequence of its characters, so that the prefix    *)
(*    rule of decimal_comparator is computed and not assumed.              *)
(*  - Tolerances are integers (the code takes floats).                     *)
(***************************************************************************)
EXTENDS Integers, Sequences, FiniteSets, TLC

(***************************************************************************)
(* Bounds of the model.                                                    *)
(***************************************************************************)
\* rows per input table
MaxRows == 2
\* numeric cell values range over -MaxNum..MaxNum
MaxNum == 2
\* abs_tol and rel_tol range over 0..MaxTol
MaxTol == 1

\* the largest __index of a row
MaxIndex == 11

(***************************************************************************)
(* Cell values.                                                            *)
(***************************************************************************)
NULL == [kind |-> "null", num |-> 0, txt |-> <<>>]

Num(n) == [kind |-> "num", num |-> n, txt |-> <<>>]

Str(s) == [kind |-> "str", num |-> 0, txt |-> s]

IsNull(x) == x.kind = "null"

\* three-valued SQL logic
SqlOr(a, b) ==
  IF a = "true" \/ b = "true" THEN "true"
  ELSE IF a = "false" /\ b = "false" THEN "false"
  ELSE "null"

SqlAnd(a, b) ==
  IF a = "false" \/ b = "false" THEN "false"
  ELSE IF a = "true" /\ b = "true" THEN "true"
  ELSE "null"

SqlBool(b) == IF b THEN "true" ELSE "false"

\* Column.eqNullSafe: never null
EqNullSafe(x, y) ==
  IF IsNull(x) /\ IsNull(y) THEN "true"
  ELSE IF IsNull(x) \/ IsNull(y) THEN "false"
  ELSE SqlBool(x = y)

\* col_1 - col_2: null when an operand is null
SqlSub(x, y) == IF IsNull(x) \/ IsNull(y) THEN NULL ELSE Num(x.num - y.num)

SqlAdd(x, y) == IF IsNull(x) \/ IsNull(y) THEN NULL ELSE Num(x.num + y.num)

SqlMul(x, y) == IF IsNull(x) \/ IsNull(y) THEN NULL ELSE Num(x.num * y.num)

SqlAbs(x) == IF IsNull(x) THEN NULL ELSE Num(IF x.num < 0 THEN -x.num ELSE x.num)

SqlLe(x, y) == IF IsNull(x) \/ IsNull(y) THEN "null" ELSE SqlBool(x.num <= y.num)

\* when(cond, a).otherwise(b): a only where cond is true, b where it is false or null
When(cond, a, b) == IF cond = "true" THEN a ELSE b

IsSpace(p) == p = " "

RECURSIVE LStrip(_)
LStrip(s) == IF s # <<>> /\ IsSpace(Head(s)) THEN LStrip(Tail(s)) ELSE s

RECURSIVE RStrip(_)
RStrip(s) ==
  IF s # <<>> /\ IsSpace(s[Len(s)]) THEN RStrip(SubSeq(s, 1, Len(s) - 1)) ELSE s

\* trim(col): leading and trailing whitespace removed, null kept
Trim(x) == IF x.kind = "str" THEN Str(RStrip(LStrip(x.txt))) ELSE x

(***************************************************************************)
(* Type names.                                                             *)
(***************************************************************************)
T_tinyint == <<"t", "i", "n", "y", "i", "n", "t">>

T_smallint == <<"s", "m", "a", "l", "l", "i", "n", "t">>

T_int == <<"i", "n", "t">>

T_bigint == <<"b", "i", "g", "i", "n", "t">>

T_float == <<"f", "l", "o", "a", "t">>

T_double == <<"d", "o", "u", "b", "l", "e">>

T_decimal == <<"d", "e", "c", "i", "m", "a", "l">>

T_decimal_p == <<"d", "e", "c", "i", "m", "a", "l", "(", "9", ")">>

T_decima == <<"d", "e", "c", "i", "m", "a">>

T_string == <<"s", "t", "r", "i", "n", "g">>

T_timestamp == <<"t", "i", "m", "e", "s", "t", "a", "m", "p">>

T_date == <<"d", "a", "t", "e">>

T_boolean == <<"b", "o", "o", "l", "e", "a", "n">>

\* variant: the decimal name compared by plain string equality
DecimalComparatorEq_Exact(other) == other = T_decimal

\* DecimalComparator.__eq__(other)
DecimalComparatorEq(other) == Len(other) >= 7 /\ SubSeq(other, 1, 7) = T_decimal

\* x in NUMERIC_SPARK_TYPES: the plain names by string equality, the last
\* element by DecimalComparator.__eq__
InNumericSparkTypes(t) ==
  \/ t \in {T_tinyint, T_smallint, T_int, T_bigint, T_float, T_double}
  \/ DecimalComparatorEq(t)

_is_comparable(type1, type2) ==
  \/ type1 = type2
  \/ (InNumericSparkTypes(type1) /\ InNumericSparkTypes(type2))
  \/ {type1, type2} = {T_string, T_timestamp}
  \/ {type1, type2} = {T_string, T_date}

(***************************************************************************)
(* columns_equal, on one row: the value written to col_match.              *)
(***************************************************************************)
\* variant: the relative tolerance scaled by col_1 instead of col_2
NumericMatch_RelTolOnLeft(x, y, rel_tol, abs_tol) ==
  When(SqlOr(EqNullSafe(x, y),
             SqlLe(SqlAbs(SqlSub(x, y)),
                   SqlAdd(Num(abs_tol), SqlMul(Num(rel_tol), SqlAbs(x))))),
       When(SqlAnd(SqlBool(~IsNull(x)), SqlBool(IsNull(y))), "false", "true"),
       "false")

NumericMatch(x, y, rel_tol, abs_tol) ==
  When(SqlOr(EqNullSafe(x, y),
             SqlLe(SqlAbs(SqlSub(x, y)),
                   SqlAdd(Num(abs_tol), SqlMul(Num(rel_tol), SqlAbs(y))))),
       When(SqlAnd(SqlBool(~IsNull(x)), SqlBool(IsNull(y))), "false", "true"),
       "false")

\* variant: == in place of eqNullSafe, which is null when a value is null
NonNumericMatch_PlainEq(x, y, ignore_spaces) ==
  LET l == IF ignore_spaces THEN Trim(x) ELSE x
      r == IF ignore_spaces THEN Trim(y) ELSE y
      when_clause == IF IsNull(l) \/ IsNull(r) THEN "null" ELSE SqlBool(l = r)
  IN  When(when_clause, "true", "false")

\* variant: only col_1 is trimmed
NonNumericMatch_TrimLeftOnly(x, y, ignore_spaces) ==
  LET when_clause == IF ignore_spaces THEN EqNullSafe(Trim(x), y)
                     ELSE EqNullSafe(x, y)
  IN  When(when_clause, "true", "false")

NonNumericMatch(x, y, ignore_spaces) ==
  LET when_clause == IF ignore_spaces THEN EqNullSafe(Trim(x), Trim(y))
                     ELSE EqNullSafe(x, y)
  IN  When(when_clause, "true", "false")

\* variant: incomparable columns compared by null-safe equality
ColumnsEqualCell_CompareAnyway(base_dtype, compare_dtype, x, y, rel_tol, abs_tol, ignore_spaces) ==
  IF InNumericSparkTypes(base_dtype) /\ InNumericSparkTypes(compare_dtype)
  THEN NumericMatch(x, y, rel_tol, abs_tol)
  ELSE NonNumericMatch(x, y, ignore_spaces)

ColumnsEqualCell(base_dtype, compare_dtype, x, y, rel_tol, abs_tol, ignore_spaces) ==
  IF _is_comparable(base_dtype, compare_dtype)
  THEN IF InNumericSparkTypes(base_dtype) /\ InNumericSparkTypes(compare_dtype)
       THEN NumericMatch(x, y, rel_tol, abs_tol)
       ELSE NonNumericMatch(x, y, ignore_spaces)
  ELSE "false"

(***************************************************************************)
(* Tables.  A table is [is_table, columns, dtypes, rows]: columns is the    *)
(* ordered list of column names, dtypes maps a column to its type name and *)
(* a row maps every column to a cell value.                                *)
(***************************************************************************)
SeqToSet(s) == {s[i] : i \in DOMAIN s}

\* the values of the join columns in a row
KeyOf(row, join_columns) == [i \in DOMAIN join_columns |-> row[join_columns[i]]]

\* df.drop_duplicates(join_columns).count(): nulls are not distinct from each other
DistinctKeyCount(df, join_columns) ==
  Cardinality({KeyOf(df.rows[i], join_columns) : i \in DOMAIN df.rows})

\* OrderedSet(df1.columns) & OrderedSet(df2.columns), in df1's order
intersect_columns(df1, df2) ==
  SelectSeq(df1.columns, LAMBDA c : c \in SeqToSet(df2.columns))

df1_unq_columns(df1, df2) ==
  SelectSeq(df1.columns, LAMBDA c : c \notin SeqToSet(df2.columns))

df2_unq_columns(df1, df2) ==
  SelectSeq(df2.columns, LAMBDA c : c \notin SeqToSet(df1.columns))

(***************************************************************************)
(* _generate_id_within_group                                               *)
(***************************************************************************)
default_value == Str(<<"DATACOMPY_NULL">>)

Digits == <<"0", "1", "2", "3", "4", "5", "6", "7", "8", "9">>

\* the decimal text of an integer, one piece per character
RECURSIVE DecText(_)
DecText(n) ==
  IF n < 0 THEN <<"-">> \o DecText(-n)
  ELSE IF n < 10 THEN <<Digits[n + 1]>>
  ELSE DecText(n \div 10) \o <<Digits[(n % 10) + 1]>>

\* col(c).cast("string")
CastString(x) ==
  IF IsNull(x) THEN NULL
  ELSE IF x.kind = "num" THEN Str(DecText(x.num))
  ELSE x

\* the rank of a character in the collation of strings of digits
DigitCode(p) == CHOOSE d \in 0..9 : Digits[d + 1] = p

\* a < b for two strings of digits, as ORDER BY compares strings
RECURSIVE TextLess(_, _)
TextLess(a, b) ==
  IF b = <<>> THEN FALSE
  ELSE IF a = <<>> THEN TRUE
  ELSE IF Head(a) = Head(b) THEN TextLess(Tail(a), Tail(b))
  ELSE DigitCode(Head(a)) < DigitCode(Head(b))

\* "string" in type
IsStringType(type) ==
  \E k \in 1..(Len(type) - 5) : SubSeq(type, k, k + 5) = T_string

\* null_check: a join column holds a null
NullCheck(df, join_columns) ==
  \E i \in DOMAIN df.rows : \E j \in DOMAIN join_columns :
     IsNull(df.rows[i][join_columns[j]])

\* default_check: a string-typed join column holds default_value
DefaultCheck(df, join_columns) ==
  \E j \in DOMAIN join_columns :
     /\ IsStringType(df.dtypes[join_columns[j]])
     /\ \E i \in DOMAIN df.rows : df.rows[i][join_columns[j]] = default_value

\* variant: the sentinel alone raises
GenerateIdRaises_DefaultOnly(df, join_columns) == DefaultCheck(df, join_columns)

\* whether _generate_id_within_group raises ValueError
GenerateIdRaises(df, join_columns) ==
  NullCheck(df, join_columns) /\ DefaultCheck(df, join_columns)

\* .fillna(default_value) on a string column
FillNa(x) == IF IsNull(x) THEN default_value ELSE x

\* the order column, per row position; index[i] is the __index of row i.
\* With a null in the join columns the join columns and __index are cast to
\* string and nulls are filled before the window is evaluated.
GenerateIdWithinGroup(df, index, join_columns) ==
  IF NullCheck(df, join_columns)
  THEN LET part(i) == [j \in DOMAIN join_columns |->
                          FillNa(CastString(df.rows[i][join_columns[j]]))]
           idx(i)  == DecText(index[i])
       IN  [i \in DOMAIN df.rows |->
              Cardinality({m \in DOMAIN df.rows :
                             part(m) = part(i) /\ TextLess(idx(m), idx(i))})]
  ELSE LET part(i) == KeyOf(df.rows[i], join_columns)
       IN  [i \in DOMAIN df.rows |->
              Cardinality({m \in DOMAIN df.rows :
                             part(m) = part(i) /\ index[m] < index[i]})]

\* monotonically_increasing_id(): the __index of the row at position i
MonotonicallyIncreasingId(df) == [i \in DOMAIN df.rows |-> i - 1]

\* temp_column_name(df1, df2)
order_column == "_temp_0"

\* df.join(_generate_id_within_group(...), on="__index").drop("__index")
WithOrderColumn(df, join_columns) ==
  LET ord == GenerateIdWithinGroup(df, MonotonicallyIncreasingId(df), join_columns)
  IN  [df EXCEPT !.columns = df.columns \o <<order_column>>,
                 !.rows = [i \in DOMAIN df.rows |->
                             [c \in SeqToSet(df.columns) \cup {order_column} |->
                                IF c = order_column THEN Num(ord[i])
                                ELSE df.rows[i][c]]]]

(***************************************************************************)
(* TableCompare._dataframe_merge                                           *)
(***************************************************************************)
NullRow(columns) == [c \in SeqToSet(columns) |-> NULL]

RestrictRow(row, columns) == [c \in SeqToSet(columns) |-> row[c]]

\* the condition of join(on=[...]): SQL equality on every join column, which
\* a null on either side never satisfies
JoinMatch(row1, row2, on) ==
  \A k \in DOMAIN on :
     /\ ~IsNull(row1[on[k]])
     /\ ~IsNull(row2[on[k]])
     /\ row1[on[k]] = row2[on[k]]

\* df1.with_column("merge", lit(True)).join(df2.with_column(...), on, how="outer"):
\* the pairs that satisfy the join condition, then the unpaired rows of each
\* side with the other side's columns null.  li and ri are the positions of
\* the source rows (0: none); they identify a row and are no column.
OuterJoin(d1, d2, on) ==
  LET n1 == Len(d1.rows)
      n2 == Len(d2.rows)
      pairs == [k \in 1..(n1 * n2) |-> <<((k - 1) \div n2) + 1, ((k - 1) % n2) + 1>>]
      both == SelectSeq(pairs,
                LAMBDA p : JoinMatch(d1.rows[p[1]], d2.rows[p[2]], on))
      lonly == SelectSeq([i \in 1..n1 |-> i],
                LAMBDA i : \A j \in 1..n2 : ~JoinMatch(d1.rows[i], d2.rows[j], on))
      ronly == SelectSeq([j \in 1..n2 |-> j],
                LAMBDA j : \A i \in 1..n1 : ~JoinMatch(d1.rows[i], d2.rows[j], on))
  IN  [k \in 1..Len(both) |->
         [left |-> d1.rows[both[k][1]], right |-> d2.rows[both[k][2]],
          MERGE_1 |-> "true", MERGE_2 |-> "true",
          li |-> both[k][1], ri |-> both[k][2]]]
      \o [k \in 1..Len(lonly) |->
         [left |-> d1.rows[lonly[k]], right |-> NullRow(d2.columns),
          MERGE_1 |-> "true", MERGE_2 |-> "null",
          li |-> lonly[k], ri |-> 0]]
      \o [k \in 1..Len(ronly) |->
         [left |-> NullRow(d1.columns), right |-> d2.rows[ronly[k]],
          MERGE_1 |-> "null", MERGE_2 |-> "true",
          li |-> 0, ri |-> ronly[k]]]

\* the join indicator column _merge
MergeIndicator(j) ==
  When(SqlAnd(j.MERGE_1, j.MERGE_2), "BOTH",
    When(SqlAnd(j.MERGE_1, SqlBool(j.MERGE_2 = "null")), "LEFT_ONLY",
      When(SqlAnd(SqlBool(j.MERGE_1 = "null"), j.MERGE_2), "RIGHT_ONLY",
        "null")))

\* the columns the join is made on
MergeOn(join_columns, temp_join_columns) == join_columns

\* the outer join of _dataframe_merge with its _merge column, the order
\* columns excluded again
MergedRows(df1, df2, join_columns, any_dupes) ==
  LET temp_join_columns == IF any_dupes THEN join_columns \o <<order_column>>
                           ELSE join_columns
      d1 == IF any_dupes THEN WithOrderColumn(df1, join_columns) ELSE df1
      d2 == IF any_dupes THEN WithOrderColumn(df2, join_columns) ELSE df2
      outer_join == OuterJoin(d1, d2, MergeOn(join_columns, temp_join_columns))
  IN  [k \in DOMAIN outer_join |->
         [left |-> RestrictRow(outer_join[k].left, df1.columns),
          right |-> RestrictRow(outer_join[k].right, df2.columns),
          li |-> outer_join[k].li, ri |-> outer_join[k].ri,
          _merge |-> MergeIndicator(outer_join[k])]]

\* outer_join[outer_join["_merge"] == "LEFT_ONLY"][df1_cols]
Df1UnqRows(merged) ==
  LET sel == SelectSeq(merged, LAMBDA j : j._merge = "LEFT_ONLY")
  IN  [k \in DOMAIN sel |-> [row |-> sel[k].left, li |-> sel[k].li]]

\* outer_join[outer_join["_merge"] == "RIGHT_ONLY"][df2_cols]
Df2UnqRows(merged) ==
  LET sel == SelectSeq(merged, LAMBDA j : j._merge = "RIGHT_ONLY")
  IN  [k \in DOMAIN sel |-> [row |-> sel[k].right, ri |-> sel[k].ri]]

\* outer_join[outer_join["_merge"] == "BOTH"]; flags holds the match columns
\* added later, none yet
IntersectRows(merged) ==
  LET sel == SelectSeq(merged, LAMBDA j : j._merge = "BOTH")
  IN  [k \in DOMAIN sel |->
         [left |-> sel[k].left, right |-> sel[k].right,
          li |-> sel[k].li, ri |-> sel[k].ri,
          flags |-> [c \in {} |-> "false"]]]

(***************************************************************************)
(* TableCompare._intersect_compare and the statistics helpers              *)
(***************************************************************************)
\* the name under which the table keeps a column added as `name`: unquoted
\* identifiers are stored in upper case
UpperName(name) ==
  CASE name = "V_match" -> "V_MATCH"
    [] name = "W_match" -> "W_MATCH"
    [] OTHER -> name

\* columns_equal(dataframe, col_1, col_2, col_match, ...): the rows with the
\* column col_match added (or replaced)
columns_equal(rows, column, dtype1, dtype2, col_match, rel_tol, abs_tol, ignore_spaces) ==
  [k \in DOMAIN rows |->
     [rows[k] EXCEPT !.flags =
        (UpperName(col_match) :>
           ColumnsEqualCell(dtype1, dtype2, rows[k].left[column],
                            rows[k].right[column], rel_tol, abs_tol, ignore_spaces))
        @@ @]]

\* variant: the rows whose flag is false are counted
MatchCount_CountsFalse(rows, col_match) ==
  Cardinality({k \in DOMAIN rows : rows[k].flags[UpperName(col_match)] = "false"})

\* select(col_match).where(col(col_match) == True).count()
MatchCount(rows, col_match) ==
  Cardinality({k \in DOMAIN rows : rows[k].flags[UpperName(col_match)] = "true"})

SetMax(S) == CHOOSE m \in S : \A n \in S : n <= m

\* min(a, b)
Min(a, b) == IF a <= b THEN a ELSE b

\* variant: a null operand counts as a difference of zero from zero
calculate_max_diff_NullAsZero(rows, column, type1, type2) ==
  IF ~(InNumericSparkTypes(type1) /\ InNumericSparkTypes(type2)) THEN 0
  ELSE LET val(x) == IF IsNull(x) THEN Num(0) ELSE x
           abs_diff == {SqlAbs(SqlSub(val(rows[k].left[column]),
                                      val(rows[k].right[column]))) :
                          k \in DOMAIN rows}
           kept == {d.num : d \in abs_diff}
       IN  IF kept = {} THEN 0 ELSE SetMax(kept)

\* the maximum of abs(col_1 - col_2) over the rows where it is not null,
\* 0 when there is none or a type is not numeric
calculate_max_diff(rows, column, type1, type2) ==
  IF ~(InNumericSparkTypes(type1) /\ InNumericSparkTypes(type2)) THEN 0
  ELSE LET abs_diff == {SqlAbs(SqlSub(rows[k].left[column], rows[k].right[column])) :
                          k \in DOMAIN rows}
           kept == {d.num : d \in {e \in abs_diff : ~IsNull(e)}}
       IN  IF kept = {} THEN 0 ELSE SetMax(kept)

\* variant: a row with any null counts
calculate_null_diff_AnyNull(rows, column) ==
  Cardinality({k \in DOMAIN rows :
     IsNull(rows[k].left[column]) \/ IsNull(rows[k].right[column])})

\* the number of rows where one of col_1, col_2 is null and the other is not
calculate_null_diff(rows, column) ==
  Cardinality({k \in DOMAIN rows :
     LET col_1_null == IsNull(rows[k].left[column])
         col_2_null == IsNull(rows[k].right[column])
     IN  (~col_1_null /\ col_2_null) \/ (col_1_null /\ ~col_2_null)})

\* variant: all_match from comparable instead of equal types
ColumnStat_Comparable(column, col_match, match_cnt, row_cnt, col1_dtype, col2_dtype, max_diff, null_diff) ==
  [column |-> column,
   match_column |-> col_match,
   match_cnt |-> match_cnt,
   unequal_cnt |-> row_cnt - match_cnt,
   dtype1 |-> col1_dtype,
   dtype2 |-> col2_dtype,
   all_match |-> _is_comparable(col1_dtype, col2_dtype) /\ (row_cnt = match_cnt),
   max_diff |-> max_diff,
   null_diff |-> null_diff]

\* the dictionary appended to column_stats for one column
ColumnStat(column, col_match, match_cnt, row_cnt, col1_dtype, col2_dtype, max_diff, null_diff) ==
  [column |-> column,
   match_column |-> col_match,
   match_cnt |-> match_cnt,
   unequal_cnt |-> row_cnt - match_cnt,
   dtype1 |-> col1_dtype,
   dtype2 |-> col2_dtype,
   all_match |-> (col1_dtype = col2_dtype) /\ (row_cnt = match_cnt),
   max_diff |-> max_diff,
   null_diff |-> null_diff]

\* the loop of _intersect_compare over the columns still to do: the rows
\* with their match columns and the column stats
RECURSIVE IntersectCompareLoop(_, _, _, _, _, _, _, _, _)
IntersectCompareLoop(columns, rows, stats, df1, df2, join_columns, rel_tol, abs_tol, ignore_spaces) ==
  IF columns = <<>> THEN [rows |-> rows, stats |-> stats]
  ELSE LET column == Head(columns)
           row_cnt == Len(rows)
           col1_dtype == df1.dtypes[column]
           col2_dtype == df2.dtypes[column]
           col_match == column \o "_match"
           compared == columns_equal(rows, column, col1_dtype, col2_dtype,
                                     col_match, rel_tol, abs_tol, ignore_spaces)
           stat == IF column \in SeqToSet(join_columns)
                   THEN ColumnStat(column, "", row_cnt, row_cnt,
                                   col1_dtype, col2_dtype, 0, 0)
                   ELSE ColumnStat(column, col_match,
                                   MatchCount(compared, col_match), row_cnt,
                                   col1_dtype, col2_dtype,
                                   calculate_max_diff(compared, column,
                                                      col1_dtype, col2_dtype),
                                   calculate_null_diff(compared, column))
       IN  IntersectCompareLoop(Tail(columns),
             IF column \in SeqToSet(join_columns) THEN rows ELSE compared,
             Append(stats, stat), df1, df2, join_columns,
             rel_tol, abs_tol, ignore_spaces)

(***************************************************************************)
(* State.                                                                  *)
(*   args               the arguments of TableCompare(...)                 *)
(*   pc                 where __init__ stands: "new", "set_df1", "set_df2",*)
(*                      "merge", "compare", then "done"; or "error"        *)
(*   error              the exception raised, "" when none                 *)
(*   assigned           the attributes of self that have been assigned     *)
(*   self_join_columns  self.join_columns                                  *)
(*   _any_dupes, df1_unq_rows, df2_unq_rows, intersect_rows, column_stats  *)
(*                      the attributes of the same name                    *)
(*   cmp                the last call of a function or of a query method   *)
(*                      with its arguments and what it returned or raised  *)
(***************************************************************************)
VARIABLES args, pc, error, assigned, self_join_columns, _any_dupes,
          df1_unq_rows, df2_unq_rows, intersect_rows, column_stats, cmp

vars == <<args, pc, error, assigned, self_join_columns, _any_dupes,
          df1_unq_rows, df2_unq_rows, intersect_rows, column_stats, cmp>>

\* the state of the object before any statement of __init__
Fresh ==
  /\ pc = "new"
  /\ error = ""
  /\ assigned = {}
  /\ self_join_columns = <<>>
  /\ _any_dupes = FALSE
  /\ df1_unq_rows = <<>>
  /\ df2_unq_rows = <<>>
  /\ intersect_rows = <<>>
  /\ column_stats = <<>>

NoCmp == [called |-> "none"]

Raise(exc) ==
  /\ pc' = "error"
  /\ error' = exc

(***************************************************************************)
(* __init__, lines 120-129: join_columns                                   *)
(***************************************************************************)
InitJoinColumns ==
  /\ pc = "new"
  /\ IF args.join_columns.kind = "none"
     THEN /\ Raise("Exception: join_columns cannot be None")
          /\ UNCHANGED <<assigned, self_join_columns, _any_dupes>>
     ELSE IF args.join_columns.cols = <<>>
     THEN /\ Raise("Exception: join_columns is empty")
          /\ UNCHANGED <<assigned, self_join_columns, _any_dupes>>
     ELSE /\ self_join_columns' = args.join_columns.cols
          /\ _any_dupes' = FALSE
          /\ assigned' = assigned \cup {"join_columns", "_any_dupes", "session"}
          /\ pc' = "set_df1"
          /\ UNCHANGED error
  /\ UNCHANGED <<args, df1_unq_rows, df2_unq_rows, intersect_rows, column_stats, cmp>>

(***************************************************************************)
(* the df1 / df2 setters and _validate_dataframe                           *)
(***************************************************************************)
\* variant: the isinstance check left out
ValidateDataframe_NoTableCheck(df, attr, more, next_pc) ==
  IF ~(SeqToSet(self_join_columns) \subseteq SeqToSet(df.columns))
  THEN /\ Raise("ValueError: must have all columns from join_columns")
       /\ assigned' = assigned \cup {attr}
       /\ UNCHANGED _any_dupes
  ELSE /\ _any_dupes' = IF DistinctKeyCount(df, self_join_columns) < Len(df.rows)
                        THEN TRUE ELSE _any_dupes
       /\ assigned' = assigned \cup {attr} \cup more
       /\ pc' = next_pc
       /\ UNCHANGED error

ValidateDataframe(df, attr, more, next_pc) ==
  IF ~df.is_table
  THEN /\ Raise("TypeError: must be a valid table")
       /\ assigned' = assigned \cup {attr}
       /\ UNCHANGED _any_dupes
  ELSE IF ~(SeqToSet(self_join_columns) \subseteq SeqToSet(df.columns))
  THEN /\ Raise("ValueError: must have all columns from join_columns")
       /\ assigned' = assigned \cup {attr}
       /\ UNCHANGED _any_dupes
  ELSE /\ _any_dupes' = IF DistinctKeyCount(df, self_join_columns) < Len(df.rows)
                        THEN TRUE ELSE _any_dupes
       /\ assigned' = assigned \cup {attr} \cup more
       /\ pc' = next_pc
       /\ UNCHANGED error

SetDf1 ==
  /\ pc = "set_df1"
  /\ ValidateDataframe(args.df1, "_df1", {}, "set_df2")
  /\ UNCHANGED <<args, self_join_columns, df1_unq_rows, df2_unq_rows,
                 intersect_rows, column_stats, cmp>>

\* the df2 setter, then lines 133-141 up to the call of _compare
SetDf2 ==
  /\ pc = "set_df2"
  /\ ValidateDataframe(args.df2, "_df2",
       {"df1_name", "df2_name", "abs_tol", "rel_tol", "ignore_spaces",
        "column_stats"}, "merge")
  /\ column_stats' = <<>>
  /\ UNCHANGED <<args, self_join_columns, df1_unq_rows, df2_unq_rows,
                 intersect_rows, cmp>>

(***************************************************************************)
(* _compare: _dataframe_merge, then _intersect_compare                     *)
(***************************************************************************)
DataframeMerge ==
  /\ pc = "merge"
  /\ IF _any_dupes /\ (\/ GenerateIdRaises(args.df1, self_join_columns)
                       \/ GenerateIdRaises(args.df2, self_join_columns))
     THEN /\ Raise("ValueError: DATACOMPY_NULL was found in your join columns")
          /\ UNCHANGED <<assigned, df1_unq_rows, df2_unq_rows, intersect_rows>>
     ELSE LET merged == MergedRows(args.df1, args.df2, self_join_columns, _any_dupes)
          IN  /\ df1_unq_rows' = Df1UnqRows(merged)
              /\ df2_unq_rows' = Df2UnqRows(merged)
              /\ intersect_rows' = IntersectRows(merged)
              /\ assigned' = assigned \cup {"df1_unq_rows", "df2_unq_rows",
                                            "intersect_rows"}
              /\ pc' = "compare"
              /\ UNCHANGED error
  /\ UNCHANGED <<args, self_join_columns, _any_dupes, column_stats, cmp>>

\* _intersect_compare; the matches() that closes _compare only logs its
\* result
IntersectCompare ==
  /\ pc = "compare"
  /\ LET out == IntersectCompareLoop(intersect_columns(args.df1, args.df2),
                   intersect_rows, column_stats, args.df1, args.df2,
                   self_join_columns, args.rel_tol, args.abs_tol,
                   args.ignore_spaces)
     IN  /\ intersect_rows' = out.rows
         /\ column_stats' = out.stats
  /\ pc' = "done"
  /\ UNCHANGED <<args, error, assigned, self_join_columns, _any_dupes,
                 df1_unq_rows, df2_unq_rows, cmp>>

(***************************************************************************)
(* The query methods.  Each is called on the constructed object and leaves *)
(* its call and what it returned (or that it raised) in cmp.               *)
(***************************************************************************)
\* len(df): the number of rows of the table
LenRows(rows) == Len(rows)

\* self.df1_unq_columns() == self.df2_unq_columns() == set()
all_columns_match ==
  /\ df1_unq_columns(args.df1, args.df2) = df2_unq_columns(args.df1, args.df2)
  /\ SeqToSet(df2_unq_columns(args.df1, args.df2)) = {}

\* len(self.df1_unq_rows) == len(self.df2_unq_rows) == 0
all_rows_overlap ==
  /\ LenRows(df1_unq_rows) = LenRows(df2_unq_rows)
  /\ LenRows(df2_unq_rows) = 0

\* the match columns count_matching_rows puts in its filter
MatchConditions ==
  LET shared == SelectSeq(intersect_columns(args.df1, args.df2),
                  LAMBDA column : column \notin SeqToSet(self_join_columns))
  IN  [k \in DOMAIN shared |-> shared[k] \o "_MATCH"]

count_matching_rows ==
  IF Len(MatchConditions) > 0
  THEN Cardinality({k \in DOMAIN intersect_rows :
         \A c \in DOMAIN MatchConditions :
            intersect_rows[k].flags[MatchConditions[c]] = "true"})
  ELSE 0

intersect_rows_match ==
  LET actual_length == Len(intersect_rows)
  IN  count_matching_rows = actual_length

matches(ignore_extra_columns) ==
  IF ~ignore_extra_columns /\ ~all_columns_match THEN FALSE
  ELSE IF ~all_rows_overlap THEN FALSE
  ELSE IF ~intersect_rows_match THEN FALSE
  ELSE TRUE

subset ==
  IF ~(SeqToSet(df2_unq_columns(args.df1, args.df2)) = {}) THEN FALSE
  ELSE IF ~(LenRows(df2_unq_rows) = 0) THEN FALSE
  ELSE IF ~intersect_rows_match THEN FALSE
  ELSE TRUE

\* what a query leaves alone: everything but cmp
QueryFrame ==
  UNCHANGED <<args, pc, error, assigned, self_join_columns, _any_dupes,
              df1_unq_rows, df2_unq_rows, intersect_rows, column_stats>>

Returns(called, result) == [called |-> called, raised |-> "", result |-> result]

Matches ==
  /\ pc = "done"
  /\ \E ignore_extra_columns \in BOOLEAN :
       cmp' = [called |-> "matches", raised |-> "",
               ignore_extra_columns |-> ignore_extra_columns,
               result |-> matches(ignore_extra_columns)]
  /\ QueryFrame

Subset ==
  /\ pc = "done"
  /\ cmp' = Returns("subset", subset)
  /\ QueryFrame

AllColumnsMatch ==
  /\ pc = "done"
  /\ cmp' = Returns("all_columns_match", all_columns_match)
  /\ QueryFrame

AllRowsOverlap ==
  /\ pc = "done"
  /\ cmp' = Returns("all_rows_overlap", all_rows_overlap)
  /\ QueryFrame

CountMatchingRows ==
  /\ pc = "done"
  /\ cmp' = Returns("count_matching_rows", count_matching_rows)
  /\ QueryFrame

IntersectRowsMatch ==
  /\ pc = "done"
  /\ cmp' = Returns("intersect_rows_match", intersect_rows_match)
  /\ QueryFrame

\* whether intersect_rows has the match column of `column`
HasMatchColumn(column) ==
  /\ column \in SeqToSet(intersect_columns(args.df1, args.df2))
  /\ column \notin SeqToSet(self_join_columns)

\* the positions of the rows with col(column + "_match") == False
MismatchPositions(column) ==
  {k \in DOMAIN intersect_rows :
     intersect_rows[k].flags[UpperName(column \o "_match")] = "false"}

\* the elements of a set of positions in increasing order
RECURSIVE SortedSeq(_)
SortedSeq(S) ==
  IF S = {} THEN <<>>
  ELSE LET m == CHOOSE x \in S : \A y \in S : x <= y
       IN  <<m>> \o SortedSeq(S \ {m})

\* variant: the sample is taken from the rows whose flag is true
SampleMismatchRows_Matching(column, sample_count, for_display, picked) ==
  LET row_cnt == Len(intersect_rows)
      match_cnt == MatchCount(intersect_rows, column \o "_match")
      limit == Min(sample_count, row_cnt - match_cnt)
      all == SortedSeq({k \in DOMAIN intersect_rows :
                intersect_rows[k].flags[UpperName(column \o "_match")] = "true"})
      sample == SubSeq(all, 1, Min(limit, Len(all)))
  IN  [columns |-> self_join_columns \o <<column \o "_df1", column \o "_df2">>,
       rows |-> [k \in DOMAIN sample |->
                   [key |-> KeyOf(intersect_rows[sample[k]].left, self_join_columns),
                    col_1 |-> intersect_rows[sample[k]].left[column],
                    col_2 |-> intersect_rows[sample[k]].right[column],
                    src |-> sample[k]]]]

\* the table sample_mismatch returns; picked is the set of rows limit() keeps.
\* A row of the result holds the join columns (key), the two versions of
\* the column, and the position src of the matched row it is taken from.
SampleMismatchRows(column, sample_count, for_display, picked) ==
  LET sample == SortedSeq(picked)
      return_cols == self_join_columns \o <<column \o "_df1", column \o "_df2">>
  IN  [columns |-> IF for_display
                   THEN self_join_columns
                        \o <<column \o " (df1)", column \o " (df2)">>
                   ELSE return_cols,
       rows |-> [k \in DOMAIN sample |->
                   [key |-> KeyOf(intersect_rows[sample[k]].left, self_join_columns),
                    col_1 |-> intersect_rows[sample[k]].left[column],
                    col_2 |-> intersect_rows[sample[k]].right[column],
                    src |-> sample[k]]]]

\* the sets of rows limit(sample_count) may keep
SampleLimits(column, sample_count) ==
  LET row_cnt == Len(intersect_rows)
      match_cnt == MatchCount(intersect_rows, column \o "_match")
      limit == Min(sample_count, row_cnt - match_cnt)
  IN  {picked \in SUBSET MismatchPositions(column) :
         Cardinality(picked) = Min(limit, Cardinality(MismatchPositions(column)))}

\* variant: the filtered rows are kept on self
SampleMismatch_KeepsSample ==
  /\ pc = "done"
  /\ \E column \in SeqToSet(args.df1.columns) :
     \E sample_count \in 0..MaxRows :
     \E for_display \in BOOLEAN :
       IF ~HasMatchColumn(column)
       THEN /\ cmp' = [called |-> "sample_mismatch",
                       raised |-> "SnowparkSQLException: invalid identifier",
                       column |-> column, sample_count |-> sample_count,
                       for_display |-> for_display, result |-> <<>>]
            /\ UNCHANGED intersect_rows
       ELSE \E picked \in SampleLimits(column, sample_count) :
              /\ cmp' = [called |-> "sample_mismatch", raised |-> "",
                         column |-> column, sample_count |-> sample_count,
                         for_display |-> for_display,
                         result |-> SampleMismatchRows(column, sample_count,
                                                       for_display, picked)]
              /\ intersect_rows' =
                   SelectSeq(intersect_rows,
                     LAMBDA row : row.flags[UpperName(column \o "_match")] = "false")
  /\ UNCHANGED <<args, pc, error, assigned, self_join_columns, _any_dupes,
                 df1_unq_rows, df2_unq_rows, column_stats>>

SampleMismatch ==
  /\ pc = "done"
  /\ \E column \in SeqToSet(args.df1.columns) :
     \E sample_count \in 0..MaxRows :
     \E for_display \in BOOLEAN :
       IF ~HasMatchColumn(column)
       THEN cmp' = [called |-> "sample_mismatch",
                    raised |-> "SnowparkSQLException: invalid identifier",
                    column |-> column, sample_count |-> sample_count,
                    for_display |-> for_display, result |-> <<>>]
       ELSE \E picked \in SampleLimits(column, sample_count) :
              cmp' = [called |-> "sample_mismatch", raised |-> "",
                      column |-> column, sample_count |-> sample_count,
                      for_display |-> for_display,
                      result |-> SampleMismatchRows(column, sample_count,
                                                    for_display, picked)]
  /\ QueryFrame

\* all_mismatch: the loop over the columns assigns nothing on self, and the
\* name array of line 574 is bound nowhere in the module
AllMismatch ==
  /\ pc = "done"
  /\ \E ignore_matching_cols \in BOOLEAN :
       cmp' = [called |-> "all_mismatch",
               raised |-> "NameError: name 'array' is not defined",
               ignore_matching_cols |-> ignore_matching_cols,
               result |-> <<>>]
  /\ QueryFrame

\* sum(col["unequal_cnt"] for col in stats)
RECURSIVE SumUnequal(_)
SumUnequal(stats) ==
  IF stats = <<>> THEN 0
  ELSE Head(stats).unequal_cnt + SumUnequal(Tail(stats))

\* the figures report() substitutes into its templates, section by section;
\* a sample is represented by its number of rows
ReportFields(sample_count) ==
  LET mismatching == SelectSeq(column_stats, LAMBDA column : ~column.all_match)
      sampled == SelectSeq(mismatching, LAMBDA column : column.unequal_cnt > 0)
  IN  [header |-> <<Len(args.df1.columns), Len(args.df2.columns),
                    Len(args.df1.rows), Len(args.df2.rows)>>,
       column_summary |-> <<Len(intersect_columns(args.df1, args.df2)),
                            Len(df1_unq_columns(args.df1, args.df2)),
                            Len(df2_unq_columns(args.df1, args.df2))>>,
       row_summary |-> <<self_join_columns, args.abs_tol, args.rel_tol,
                         Len(intersect_rows), Len(df1_unq_rows), Len(df2_unq_rows),
                         Len(intersect_rows) - count_matching_rows,
                         count_matching_rows, _any_dupes>>,
       column_comparison |->
          <<Len(SelectSeq(column_stats, LAMBDA column : column.unequal_cnt > 0)),
            Len(SelectSeq(column_stats, LAMBDA column : column.unequal_cnt = 0)),
            SumUnequal(column_stats)>>,
       match_stats |-> [k \in DOMAIN mismatching |->
                          <<mismatching[k].column, mismatching[k].dtype1,
                            mismatching[k].dtype2, mismatching[k].unequal_cnt,
                            mismatching[k].max_diff, mismatching[k].null_diff>>],
       match_sample |-> IF sample_count > 0
                        THEN [k \in DOMAIN sampled |->
                                Min(sample_count, sampled[k].unequal_cnt)]
                        ELSE <<>>,
       df1_unq_sample |-> Min(sample_count, Len(df1_unq_rows)),
       df2_unq_sample |-> Min(sample_count, Len(df2_unq_rows))]

Report ==
  /\ pc = "done"
  /\ \E sample_count \in 0..MaxRows :
       cmp' = [called |-> "report", raised |-> "",
               sample_count |-> sample_count,
               result |-> ReportFields(sample_count)]
  /\ QueryFrame

Next ==
  \/ InitJoinColumns
  \/ SetDf1
  \/ SetDf2
  \/ DataframeMerge
  \/ IntersectCompare
  \/ Matches
  \/ Subset
  \/ AllColumnsMatch
  \/ AllRowsOverlap
  \/ CountMatchingRows
  \/ IntersectRowsMatch
  \/ SampleMismatch
  \/ AllMismatch
  \/ Report

(***************************************************************************)
(* The arguments the model runs the constructor on.                        *)
(***************************************************************************)
SeqsUpTo(S, n) == UNION {[1..m -> S] : m \in 0..n}

Table(is_table, columns, dtypes, rows) ==
  [is_table |-> is_table, columns |-> columns, dtypes |-> dtypes, rows |-> rows]

Args(jc, df1, df2, abs_tol, rel_tol, ignore_spaces) ==
  [join_columns |-> jc, df1 |-> df1, df2 |-> df2,
   abs_tol |-> abs_tol, rel_tol |-> rel_tol, ignore_spaces |-> ignore_spaces]

ListArg(cols) == [kind |-> "list", cols |-> cols]

\* the values a join column of a type takes in the model
KeyValues(type) ==
  IF type = T_string THEN {NULL, Str(<<"a">>), default_value}
  ELSE {NULL, Num(1), Num(2)}

KVRow(k, v) == ("K" :> k) @@ ("V" :> v)

KVTypes(ktype, vtype) == ("K" :> ktype) @@ ("V" :> vtype)

\* two tables K, V with any keys (null, repeated, unmatched) and an int V;
\* the join is on K, or on K and V
InitKeys ==
  \E ktype \in {T_int, T_string} :
  \E jc \in {<<"K">>, <<"K", "V">>} :
    LET RowSet == {KVRow(k, v) : k \in KeyValues(ktype), v \in {NULL, Num(1)}}
    IN  \E rows1 \in SeqsUpTo(RowSet, MaxRows) :
        \E rows2 \in SeqsUpTo(RowSet, MaxRows) :
          args = Args(ListArg(jc),
                      Table(TRUE, <<"K", "V">>, KVTypes(ktype, T_int), rows1),
                      Table(TRUE, <<"K", "V">>, KVTypes(ktype, T_int), rows2),
                      0, 0, FALSE)

\* join_columns arguments: None, [], "K", ["K"]
JoinColumnArgs ==
  {[kind |-> "none", cols |-> <<>>], ListArg(<<>>),
   [kind |-> "str", cols |-> <<"K">>], ListArg(<<"K">>)}

\* small inputs of every shape: not a table, join column absent, a column
\* of its own (extra), no shared non-key column
SmallTables(extra) ==
  {Table(is_table, columns,
         [c \in SeqToSet(columns) |-> T_int],
         [i \in 1..n |-> [c \in SeqToSet(columns) |-> Num(1)]]) :
     is_table \in BOOLEAN,
     columns \in {<<"K", "V">>, <<"K", "V", extra>>, <<"K">>, <<"V">>},
     n \in 0..1}

InitArgs ==
  \E jc \in JoinColumnArgs :
  \E df1 \in SmallTables("X") :
  \E df2 \in SmallTables("Y") :
    args = Args(jc, df1, df2, 0, 0, FALSE)

Init ==
  /\ InitKeys \/ InitArgs
  /\ Fresh
  /\ cmp = NoCmp

Spec == Init /\ [][Next]_vars

\* the values a compared column of a type takes in tables
ColumnValues(type) ==
  IF InNumericSparkTypes(type) THEN {NULL, Num(0), Num(1), Num(MaxNum)}
  ELSE IF type = T_string THEN {NULL, Str(<<"a">>), Str(<<" ", "a">>)}
  ELSE {NULL, Str(<<"a">>)}

\* the type pairs of the shared column V: equal, numeric and different,
\* both text, text against date, incomparable
TypePairs ==
  {<<T_int, T_int>>, <<T_int, T_bigint>>, <<T_string, T_string>>,
   <<T_string, T_date>>, <<T_int, T_string>>}

\* two tables K, V whose keys are the row positions, with V of any pair of
\* types and any values, under any tolerance (numeric pairs) or
\* ignore_spaces (other pairs)
InitTypes ==
  \E pair \in TypePairs :
  \E n1 \in 0..MaxRows, n2 \in 0..MaxRows :
  \E vals1 \in [1..n1 -> ColumnValues(pair[1])] :
  \E vals2 \in [1..n2 -> ColumnValues(pair[2])] :
  \E abs_tol \in 0..MaxTol, rel_tol \in 0..MaxTol, ignore_spaces \in BOOLEAN :
    /\ IF InNumericSparkTypes(pair[1]) /\ InNumericSparkTypes(pair[2])
       THEN ~ignore_spaces
       ELSE abs_tol = 0 /\ rel_tol = 0
    /\ args = Args(ListArg(<<"K">>),
                   Table(TRUE, <<"K", "V">>, KVTypes(T_int, pair[1]),
                         [i \in 1..n1 |-> KVRow(Num(i), vals1[i])]),
                   Table(TRUE, <<"K", "V">>, KVTypes(T_int, pair[2]),
                         [i \in 1..n2 |-> KVRow(Num(i), vals2[i])]),
                   abs_tol, rel_tol, ignore_spaces)
    /\ Fresh
    /\ cmp = NoCmp

SpecTypes == InitTypes /\ [][Next]_vars

(***************************************************************************)
(* _generate_id_within_group called on a table with its __index column:    *)
(* rows of one key type, any keys, and increasing __index values.          *)
(***************************************************************************)
InitIds ==
  /\ \E ktype \in {T_int, T_string} :
     \E n \in 0..MaxRows :
     \E keys \in [1..n -> KeyValues(ktype)] :
     \E index \in [1..n -> 0..MaxIndex] :
       /\ \A i, j \in 1..n : i < j => index[i] < index[j]
       /\ cmp = [called |-> "none", raised |-> "",
                 df |-> Table(TRUE, <<"K", "V">>, KVTypes(ktype, T_int),
                              [i \in 1..n |-> KVRow(keys[i], Num(1))]),
                 index |-> index, join_columns |-> <<"K">>, result |-> <<>>]
  /\ args = Args(ListArg(<<>>), Table(FALSE, <<>>, <<>>, <<>>),
                 Table(FALSE, <<>>, <<>>, <<>>), 0, 0, FALSE)
  /\ Fresh

CallGenerateId ==
  /\ cmp.called = "none"
  /\ cmp' = IF GenerateIdRaises(cmp.df, cmp.join_columns)
            THEN [cmp EXCEPT !.called = "_generate_id_within_group",
                    !.raised = "ValueError: DATACOMPY_NULL was found in your join columns"]
            ELSE [cmp EXCEPT !.called = "_generate_id_within_group",
                    !.result = GenerateIdWithinGroup(cmp.df, cmp.index,
                                                     cmp.join_columns)]
  /\ UNCHANGED <<args, pc, error, assigned, self_join_columns, _any_dupes,
                 df1_unq_rows, df2_unq_rows, intersect_rows, column_stats>>

NextIds == CallGenerateId

SpecIds == InitIds /\ [][NextIds]_vars

(***************************************************************************)
(* _is_comparable and columns_equal called on one pair of columns and one  *)
(* row of values.                                                          *)
(***************************************************************************)
CmpTypes ==
  {T_tinyint, T_smallint, T_int, T_bigint, T_float, T_double, T_decimal,
   T_decimal_p, T_decima, T_string, T_timestamp, T_date, T_boolean}

\* texts of at most two pieces, with and without whitespace
Texts == {Str(s) : s \in SeqsUpTo({" ", "a"}, 2)}

CmpValues(type) ==
  IF InNumericSparkTypes(type)
  THEN {NULL} \cup {Num(n) : n \in (-MaxNum)..MaxNum}
  ELSE IF type = T_string THEN {NULL} \cup Texts
  ELSE {NULL, Str(<<"a">>), Str(<<"a", "a">>)}

InitCmp ==
  /\ \E type1 \in CmpTypes, type2 \in CmpTypes :
     \E x \in CmpValues(type1), y \in CmpValues(type2) :
     \E rel_tol \in 0..MaxTol, abs_tol \in 0..MaxTol, ignore_spaces \in BOOLEAN :
       cmp = [called |-> "none", type1 |-> type1, type2 |-> type2,
              x |-> x, y |-> y, rel_tol |-> rel_tol, abs_tol |-> abs_tol,
              ignore_spaces |-> ignore_spaces, result |-> "none"]
  /\ args = Args(ListArg(<<>>), Table(FALSE, <<>>, <<>>, <<>>),
                 Table(FALSE, <<>>, <<>>, <<>>), 0, 0, FALSE)
  /\ Fresh

CallIsComparable ==
  /\ cmp.called = "none"
  /\ cmp' = [cmp EXCEPT !.called = "_is_comparable",
                        !.result = SqlBool(_is_comparable(cmp.type1, cmp.type2))]
  /\ UNCHANGED <<args, pc, error, assigned, self_join_columns, _any_dupes,
                 df1_unq_rows, df2_unq_rows, intersect_rows, column_stats>>

CallColumnsEqual ==
  /\ cmp.called = "none"
  /\ cmp' = [cmp EXCEPT !.called = "columns_equal",
                        !.result = ColumnsEqualCell(cmp.type1, cmp.type2, cmp.x, cmp.y,
                                     cmp.rel_tol, cmp.abs_tol, cmp.ignore_spaces)]
  /\ UNCHANGED <<args, pc, error, assigned, self_join_columns, _any_dupes,
                 df1_unq_rows, df2_unq_rows, intersect_rows, column_stats>>

NextCmp ==
  \/ CallIsComparable
  \/ CallColumnsEqual

SpecCmp == InitCmp /\ [][NextCmp]_vars

(***************************************************************************)
(* Properties.                                                             *)
(***************************************************************************)
Merged == pc \in {"compare", "done"}

UniqueKeys(df) == DistinctKeyCount(df, self_join_columns) = Len(df.rows)

LeftKey(i) == KeyOf(args.df1.rows[i], self_join_columns)

RightKey(j) == KeyOf(args.df2.rows[j], self_join_columns)

HasNull(key) == \E k \in DOMAIN key : IsNull(key[k])

\* how many rows of a result relation come from the source row at position i
LeftCopies(rel, i) == Cardinality({k \in DOMAIN rel : rel[k].li = i})

RightCopies(rel, j) == Cardinality({k \in DOMAIN rel : rel[k].ri = j})

\* the rows of the results are the source rows they stand for
ResultsAreSourceRows ==
  /\ \A k \in DOMAIN df1_unq_rows :
       df1_unq_rows[k].row = args.df1.rows[df1_unq_rows[k].li]
  /\ \A k \in DOMAIN df2_unq_rows :
       df2_unq_rows[k].row = args.df2.rows[df2_unq_rows[k].ri]
  /\ \A k \in DOMAIN intersect_rows :
       /\ intersect_rows[k].left = args.df1.rows[intersect_rows[k].li]
       /\ intersect_rows[k].right = args.df2.rows[intersect_rows[k].ri]

\* every source row is in exactly one of its side's unique rows and the
\* matched rows, and the row counts add up
PartitionAndCounts ==
  /\ ResultsAreSourceRows
  /\ \A i \in DOMAIN args.df1.rows :
       LeftCopies(df1_unq_rows, i) + LeftCopies(intersect_rows, i) = 1
  /\ \A j \in DOMAIN args.df2.rows :
       RightCopies(df2_unq_rows, j) + RightCopies(intersect_rows, j) = 1
  /\ Len(df1_unq_rows) + Len(intersect_rows) = Len(args.df1.rows)
  /\ Len(df2_unq_rows) + Len(intersect_rows) = Len(args.df2.rows)

\* a row is matched iff its join-key tuple occurs in the other relation
MatchedIffKeyInBoth ==
  /\ \A i \in DOMAIN args.df1.rows :
       LeftCopies(intersect_rows, i) > 0
         <=> \E j \in DOMAIN args.df2.rows : RightKey(j) = LeftKey(i)
  /\ \A j \in DOMAIN args.df2.rows :
       RightCopies(intersect_rows, j) > 0
         <=> \E i \in DOMAIN args.df1.rows : LeftKey(i) = RightKey(j)

\* C1: when the join keys are unique in each relation, after the merge every
\* left row is in exactly one of df1_unq_rows and intersect_rows, every right
\* row in exactly one of df2_unq_rows and intersect_rows, the counts add up,
\* and a row is matched iff its join-key tuple occurs in both relations.
C1_PartitionAndMatchedIffKeyInBoth ==
  (Merged /\ UniqueKeys(args.df1) /\ UniqueKeys(args.df2))
    => (PartitionAndCounts /\ MatchedIffKeyInBoth)

\* The part of C1 that the code keeps: the partition and the counts.
C1_PartitionOnly ==
  (Merged /\ UniqueKeys(args.df1) /\ UniqueKeys(args.df2)) => PartitionAndCounts

\* the zero-based rank of row i among the rows of rows with its join key
Occurrence(rows, i) ==
  Cardinality({m \in 1..(i - 1) :
     KeyOf(rows[m], self_join_columns) = KeyOf(rows[i], self_join_columns)})

KeyCount(rows, key) ==
  Cardinality({m \in DOMAIN rows : KeyOf(rows[m], self_join_columns) = key})

\* C2: with duplicate join keys the rows align by occurrence rank: for each
\* key (here: each key without a null) with nL rows in left and nR in right,
\* intersect_rows holds exactly min(nL, nR) rows of that key, each pairing
\* the i-th left occurrence with the i-th right occurrence.
C2_DuplicatesAlignByOccurrence ==
  (Merged /\ _any_dupes) =>
    /\ \A i \in DOMAIN args.df1.rows :
         ~HasNull(LeftKey(i)) =>
           Cardinality({k \in DOMAIN intersect_rows :
                          KeyOf(intersect_rows[k].left, self_join_columns) = LeftKey(i)})
             = Min(KeyCount(args.df1.rows, LeftKey(i)),
                   KeyCount(args.df2.rows, LeftKey(i)))
    /\ \A k \in DOMAIN intersect_rows :
         Occurrence(args.df1.rows, intersect_rows[k].li)
           = Occurrence(args.df2.rows, intersect_rows[k].ri)

(***************************************************************************)
(* Properties of columns_equal and _is_comparable (SpecCmp).               *)
(***************************************************************************)
Compared == cmp.called = "columns_equal"

AbsInt(n) == IF n < 0 THEN -n ELSE n

\* the numeric family as the specification lists it
NumericFamily(type) ==
  \/ type \in {T_tinyint, T_smallint, T_int, T_bigint, T_float, T_double}
  \/ (Len(type) >= Len(T_decimal) /\ \A i \in DOMAIN T_decimal : type[i] = T_decimal[i])

Comparable(type1, type2) ==
  \/ type1 = type2
  \/ (NumericFamily(type1) /\ NumericFamily(type2))
  \/ (type1 = T_string /\ type2 \in {T_timestamp, T_date})
  \/ (type2 = T_string /\ type1 \in {T_timestamp, T_date})

BothNull == IsNull(cmp.x) /\ IsNull(cmp.y)

OneNull == IsNull(cmp.x) # IsNull(cmp.y)

\* C3: for two numeric types the flag is true iff both values are null, or
\* both are non-null and |left - right| <= abs_tol + rel_tol * |right|; it
\* is false when exactly one value is null.
C3_NumericFlag ==
  (Compared /\ NumericFamily(cmp.type1) /\ NumericFamily(cmp.type2)) =>
    (cmp.result = "true"
       <=> \/ BothNull
           \/ /\ ~IsNull(cmp.x)
              /\ ~IsNull(cmp.y)
              /\ AbsInt(cmp.x.num - cmp.y.num)
                   <= cmp.abs_tol + cmp.rel_tol * AbsInt(cmp.y.num))

\* C3's case: a left value against a null right value, under a tolerance
\* that is not zero
C3_Witness ==
  /\ Compared
  /\ cmp.type1 = T_int /\ cmp.type2 = T_decimal_p
  /\ cmp.x = Num(2) /\ IsNull(cmp.y)
  /\ cmp.abs_tol = 1 /\ cmp.rel_tol = 1
  /\ cmp.result = "false"

\* C4 as stated: for any pair of column types the flag is true when both
\* values are null and false when exactly one is null.
C4_NullSafeAnyTypes ==
  Compared => /\ (BothNull => cmp.result = "true")
              /\ (OneNull => cmp.result = "false")

\* C4, amended: for every comparable pair of types the flag is true when
\* both values are null; for every pair of types it is false when exactly
\* one is null (and false throughout for an incomparable pair), whatever
\* abs_tol, rel_tol and ignore_spaces are.
C4_NullSafeComparableTypes ==
  Compared => /\ ((BothNull /\ Comparable(cmp.type1, cmp.type2)) => cmp.result = "true")
              /\ (OneNull => cmp.result = "false")
              /\ (~Comparable(cmp.type1, cmp.type2) => cmp.result = "false")

C4_Witness ==
  /\ Compared
  /\ cmp.type1 = T_string /\ cmp.type2 = T_date
  /\ BothNull
  /\ cmp.ignore_spaces
  /\ cmp.result = "true"

\* the flag the non-numeric rule gives when stripping is applied under strip
NullSafeEqual(strip) ==
  LET l == IF strip THEN Trim(cmp.x) ELSE cmp.x
      r == IF strip THEN Trim(cmp.y) ELSE cmp.y
  IN  \/ (IsNull(l) /\ IsNull(r))
      \/ (~IsNull(l) /\ ~IsNull(r) /\ l = r)

NonNumericPair ==
  /\ Comparable(cmp.type1, cmp.type2)
  /\ ~(NumericFamily(cmp.type1) /\ NumericFamily(cmp.type2))

\* C6 as stated: for a comparable pair that is not numeric-vs-numeric the
\* flag is the null-safe equality of the two values, stripped of leading and
\* trailing whitespace iff ignore_spaces is set and both columns are strings.
C6_StripOnlyStringPairs ==
  (Compared /\ NonNumericPair) =>
    (cmp.result = "true"
       <=> NullSafeEqual(cmp.ignore_spaces /\ cmp.type1 = T_string
                                           /\ cmp.type2 = T_string))

\* C6, amended: the values are stripped iff ignore_spaces is set, whatever
\* the two types are.
C6_StripWheneverIgnoreSpaces ==
  (Compared /\ NonNumericPair) =>
    (cmp.result = "true" <=> NullSafeEqual(cmp.ignore_spaces))

C6_Witness ==
  /\ Compared
  /\ cmp.type1 = T_string /\ cmp.type2 = T_string
  /\ cmp.ignore_spaces
  /\ cmp.x = Str(<<" ", "a">>) /\ cmp.y = Str(<<"a", " ">>)
  /\ cmp.result = "true"

\* C7: _is_comparable is true iff the names are identical, or both are in
\* the numeric family, or the pair is {string, timestamp} or {string, date};
\* and it gives the same answer with its arguments swapped.
C7_IsComparable ==
  cmp.called = "_is_comparable" =>
    /\ cmp.result = SqlBool(Comparable(cmp.type1, cmp.type2))
    /\ cmp.result = SqlBool(_is_comparable(cmp.type2, cmp.type1))

C7_Witness ==
  /\ cmp.called = "_is_comparable"
  /\ cmp.type1 = T_decimal_p /\ cmp.type2 = T_tinyint
  /\ cmp.result = "true"

(***************************************************************************)
(* Properties of construction (Spec, SpecTypes).                           *)
(***************************************************************************)
BadJoinColumns ==
  args.join_columns.kind = "none" \/ args.join_columns.cols = <<>>

BadTable(df) ==
  \/ ~df.is_table
  \/ ~(SeqToSet(args.join_columns.cols) \subseteq SeqToSet(df.columns))

NothingProduced ==
  /\ assigned \cap {"df1_unq_rows", "df2_unq_rows", "intersect_rows",
                    "column_stats"} = {}
  /\ df1_unq_rows = <<>> /\ df2_unq_rows = <<>> /\ intersect_rows = <<>>
  /\ column_stats = <<>>

\* C8: construction fails with an error, before any join or comparison and
\* without any result relation or column stat, when join_columns is None or
\* empty, when a join column is absent from either table, or when either
\* input is not a table: it never reaches the merge.
C8_ValidationFailsBeforeMerge ==
  /\ (BadJoinColumns /\ pc # "new") => pc = "error"
  /\ (BadTable(args.df1) /\ pc \notin {"new", "set_df1"}) => pc = "error"
  /\ (BadTable(args.df2) /\ pc \notin {"new", "set_df1", "set_df2"}) => pc = "error"
  /\ (BadJoinColumns \/ BadTable(args.df1) \/ BadTable(args.df2))
       => (pc \notin {"merge", "compare", "done"} /\ NothingProduced)
  /\ (pc = "error" /\ (BadJoinColumns \/ BadTable(args.df1) \/ BadTable(args.df2)))
       => error # ""

C8_Witness ==
  /\ pc = "error"
  /\ ~BadJoinColumns
  /\ ~BadTable(args.df1)
  /\ ~args.df2.is_table
  /\ Len(args.df1.rows) > 0
  /\ NothingProduced

SentinelInKeys(df) == DefaultCheck(df, self_join_columns)

NullInKeys(df) == NullCheck(df, self_join_columns)

PastMerge == pc \notin {"new", "set_df1", "set_df2", "merge"}

SentinelError == error = "ValueError: DATACOMPY_NULL was found in your join columns"

\* C9 as stated: whenever the duplicate-key disambiguation runs, construction
\* fails if DATACOMPY_NULL is a value of a string-typed join column of a
\* relation, whether or not its join columns hold a null.
C9_SentinelAlwaysFails ==
  (PastMerge /\ _any_dupes /\ (SentinelInKeys(args.df1) \/ SentinelInKeys(args.df2)))
    => pc = "error"

\* C9, amended: whenever the duplicate-key disambiguation runs, construction
\* fails with the ValueError iff some relation has both a null in a join
\* column and DATACOMPY_NULL as a value of a string-typed join column; a
\* sentinel in a relation whose join columns hold no null does not stop it.
C9_SentinelFailsWithNull ==
  (PastMerge /\ error \in {"", "ValueError: DATACOMPY_NULL was found in your join columns"}) =>
    (SentinelError
       <=> /\ _any_dupes
           /\ \/ (NullInKeys(args.df1) /\ SentinelInKeys(args.df1))
              \/ (NullInKeys(args.df2) /\ SentinelInKeys(args.df2)))

\* C9's case: duplicates in df1, the sentinel and a null in df2
C9_Witness ==
  /\ SentinelError
  /\ ~UniqueKeys(args.df1)
  /\ ~SentinelInKeys(args.df1)
  /\ UniqueKeys(args.df2) /\ NullInKeys(args.df2) /\ SentinelInKeys(args.df2)

StatsOf(column) == SelectSeq(column_stats, LAMBDA st : st.column = column)

SharedNonKeyColumns ==
  {c \in SeqToSet(intersect_columns(args.df1, args.df2)) :
     c \notin SeqToSet(self_join_columns)}

\* C5: for a shared non-key column of incomparable types the flag is false
\* on every matched row whatever the values, its stat has match_cnt 0 and
\* unequal_cnt = the matched row count and is not all_match, and the column
\* has its entry in column_stats.
C5_IncomparableNeverMatches ==
  pc = "done" =>
    \A c \in SharedNonKeyColumns :
      ~Comparable(args.df1.dtypes[c], args.df2.dtypes[c]) =>
        /\ \A k \in DOMAIN intersect_rows :
             intersect_rows[k].flags[UpperName(c \o "_match")] = "false"
        /\ Len(StatsOf(c)) = 1
        /\ StatsOf(c)[1].match_cnt = 0
        /\ StatsOf(c)[1].unequal_cnt = Len(intersect_rows)
        /\ ~StatsOf(c)[1].all_match

\* C5's case: incomparable types and a matched row with both values null
C5_Witness ==
  /\ pc = "done"
  /\ ~Comparable(args.df1.dtypes["V"], args.df2.dtypes["V"])
  /\ Len(intersect_rows) = MaxRows
  /\ \E k \in DOMAIN intersect_rows :
       IsNull(intersect_rows[k].left["V"]) /\ IsNull(intersect_rows[k].right["V"])
  /\ StatsOf("V")[1].unequal_cnt = MaxRows

\* C10 as stated: all_match is true iff the two types are comparable and
\* unequal_cnt is 0.
C10_AllMatchIffComparable ==
  pc = "done" =>
    \A k \in DOMAIN column_stats :
      column_stats[k].all_match
        <=> /\ Comparable(column_stats[k].dtype1, column_stats[k].dtype2)
            /\ column_stats[k].unequal_cnt = 0

\* C10, amended: all_match is true iff the two type names are identical and
\* unequal_cnt is 0; a column of two different numeric types is not
\* all_match even when every value matches.
C10_AllMatchIffSameType ==
  pc = "done" =>
    \A k \in DOMAIN column_stats :
      column_stats[k].all_match
        <=> /\ column_stats[k].dtype1 = column_stats[k].dtype2
            /\ column_stats[k].unequal_cnt = 0

\* C10's case: int against bigint, every matched value equal
C10_Witness ==
  /\ pc = "done"
  /\ Len(intersect_rows) = MaxRows
  /\ StatsOf("V")[1].dtype1 = T_int /\ StatsOf("V")[1].dtype2 = T_bigint
  /\ StatsOf("V")[1].unequal_cnt = 0
  /\ ~StatsOf("V")[1].all_match

(***************************************************************************)
(* column_stats after construction                                         *)
(***************************************************************************)
SharedColumns == SeqToSet(intersect_columns(args.df1, args.df2))

\* the matched rows whose flag for column c is true
TrueFlagRows(c) ==
  {k \in DOMAIN intersect_rows : intersect_rows[k].flags[c \o "_MATCH"] = "true"}

\* C11: after construction column_stats holds exactly one entry per shared
\* column; every entry has match_cnt + unequal_cnt = the matched row count
\* and 0 <= match_cnt <= that count; a non-key column's match_cnt is the
\* number of matched rows whose flag is true; a join-key column has
\* match_cnt = the matched row count, max_diff 0 and null_diff 0.
C11_ColumnStats ==
  pc = "done" =>
    /\ Len(column_stats) = Cardinality(SharedColumns)
    /\ \A c \in SharedColumns : Len(StatsOf(c)) = 1
    /\ \A k \in DOMAIN column_stats :
         LET st == column_stats[k]
         IN  /\ st.column \in SharedColumns
             /\ st.match_cnt + st.unequal_cnt = Len(intersect_rows)
             /\ 0 <= st.match_cnt /\ st.match_cnt <= Len(intersect_rows)
             /\ IF st.column \in SeqToSet(self_join_columns)
                THEN /\ st.match_cnt = Len(intersect_rows)
                     /\ st.max_diff = 0
                     /\ st.null_diff = 0
                ELSE st.match_cnt = Cardinality(TrueFlagRows(st.column))

\* C11's case: a key column and a non-key column with one matched row that
\* matches and one that does not
C11_Witness ==
  /\ pc = "done"
  /\ self_join_columns = <<"K">>
  /\ Len(intersect_rows) = 2
  /\ Len(column_stats) = 2
  /\ StatsOf("K")[1].match_cnt = 2
  /\ StatsOf("V")[1].match_cnt = 1
  /\ StatsOf("V")[1].unequal_cnt = 1

\* the differences |left - right| of column c over the matched rows where
\* both values are present
PresentDiffs(c) ==
  {AbsInt(intersect_rows[k].left[c].num - intersect_rows[k].right[c].num) :
     k \in {j \in DOMAIN intersect_rows :
              /\ ~IsNull(intersect_rows[j].left[c])
              /\ ~IsNull(intersect_rows[j].right[c])}}

\* C12: max_diff is 0 when either type is not numeric; otherwise it is the
\* maximum of |left - right| over the matched rows where both values are
\* non-null (a row with a null is left out, not counted as zero), and 0
\* when there is no such row; it is never negative.
C12_MaxDiff ==
  pc = "done" =>
    \A c \in SharedNonKeyColumns :
      LET st == StatsOf(c)[1]
      IN  /\ st.max_diff >= 0
          /\ IF ~(NumericFamily(st.dtype1) /\ NumericFamily(st.dtype2))
             THEN st.max_diff = 0
             ELSE IF PresentDiffs(c) = {} THEN st.max_diff = 0
             ELSE /\ st.max_diff \in PresentDiffs(c)
                  /\ \A d \in PresentDiffs(c) : d <= st.max_diff

\* C12's case: numeric types, a row with a null on one side and a row whose
\* two values are equal: the null row is left out and the maximum is 0
C12_Witness ==
  /\ pc = "done"
  /\ NumericFamily(args.df1.dtypes["V"]) /\ NumericFamily(args.df2.dtypes["V"])
  /\ Len(intersect_rows) = 2
  /\ \E k \in DOMAIN intersect_rows :
       /\ IsNull(intersect_rows[k].left["V"])
       /\ intersect_rows[k].right["V"] = Num(MaxNum)
  /\ PresentDiffs("V") = {0}
  /\ StatsOf("V")[1].max_diff = 0

\* C13: null_diff is the number of matched rows in which exactly one of the
\* two values is null, whatever the tolerance and the column types; a row
\* where both or neither is null is not counted, and it is 0 when there is
\* no matched row.
C13_NullDiff ==
  pc = "done" =>
    \A c \in SharedNonKeyColumns :
      /\ StatsOf(c)[1].null_diff =
           Cardinality({k \in DOMAIN intersect_rows :
              IsNull(intersect_rows[k].left[c]) # IsNull(intersect_rows[k].right[c])})
      /\ (intersect_rows = <<>> => StatsOf(c)[1].null_diff = 0)

\* C13's case: incomparable types under a tolerance-free comparison, one row
\* with both values null and one with a null on the right only
C13_Witness ==
  /\ pc = "done"
  /\ ~Comparable(args.df1.dtypes["V"], args.df2.dtypes["V"])
  /\ \E k \in DOMAIN intersect_rows :
       IsNull(intersect_rows[k].left["V"]) /\ IsNull(intersect_rows[k].right["V"])
  /\ \E k \in DOMAIN intersect_rows :
       ~IsNull(intersect_rows[k].left["V"]) /\ IsNull(intersect_rows[k].right["V"])
  /\ StatsOf("V")[1].null_diff = 1

(***************************************************************************)
(* The query methods on the constructed object                             *)
(***************************************************************************)
Called(name) == cmp.called = name /\ cmp.raised = ""

NoExtraColumns ==
  /\ SeqToSet(args.df1.columns) \subseteq SeqToSet(args.df2.columns)
  /\ SeqToSet(args.df2.columns) \subseteq SeqToSet(args.df1.columns)

\* the matched rows that match on every shared column
FullyMatchingRows ==
  {k \in DOMAIN intersect_rows :
     \A c \in SharedNonKeyColumns : intersect_rows[k].flags[c \o "_MATCH"] = "true"}

EveryMatchedRowMatches == FullyMatchingRows = DOMAIN intersect_rows

\* C14: matches(ignore_extra_columns) is true iff (ignore_extra_columns or
\* neither relation has a column the other lacks) and df1_unq_rows and
\* df2_unq_rows are empty and every matched row matches on all shared
\* columns; so matches(False) implies matches(True), and matches() is false
\* when a row of either relation has no counterpart.
C14_Matches ==
  cmp.called = "matches" =>
    /\ cmp.raised = ""
    /\ cmp.result <=> /\ cmp.ignore_extra_columns \/ NoExtraColumns
                      /\ df1_unq_rows = <<>> /\ df2_unq_rows = <<>>
                      /\ EveryMatchedRowMatches
    /\ (~cmp.ignore_extra_columns /\ cmp.result) => matches(TRUE)
    /\ (df1_unq_rows # <<>> \/ df2_unq_rows # <<>>) => ~cmp.result

\* C14 holds on every object with a shared non-key column or without a
\* matched row
C14_MatchesWithComparedColumn ==
  (SharedNonKeyColumns # {} \/ intersect_rows = <<>>) => C14_Matches

\* C15: subset() is true iff every column of df2 is a column of df1,
\* df2_unq_rows is empty and every matched row matches on all shared
\* columns; columns and rows of df1 alone never make it false, and
\* matches(False) implies subset().
C15_Subset ==
  cmp.called = "subset" =>
    /\ cmp.raised = ""
    /\ cmp.result <=> /\ SeqToSet(args.df2.columns) \subseteq SeqToSet(args.df1.columns)
                      /\ df2_unq_rows = <<>>
                      /\ EveryMatchedRowMatches
    /\ matches(FALSE) => cmp.result

\* C15 holds on every object with a shared non-key column or without a
\* matched row
C15_SubsetWithComparedColumn ==
  (SharedNonKeyColumns # {} \/ intersect_rows = <<>>) => C15_Subset

\* C20: count_matching_rows() is the number of matched rows for which the
\* flag of every shared non-key column is true, also when the relations
\* share no non-key column; it never exceeds the matched row count, and
\* intersect_rows_match() is true iff it equals the matched row count.
C20_CountMatchingRows ==
  /\ cmp.called = "count_matching_rows" =>
       /\ cmp.raised = ""
       /\ cmp.result = Cardinality(FullyMatchingRows)
       /\ cmp.result <= Len(intersect_rows)
  /\ cmp.called = "intersect_rows_match" =>
       /\ cmp.raised = ""
       /\ cmp.result <=> Cardinality(FullyMatchingRows) = Len(intersect_rows)

\* C20 holds on every object with a shared non-key column
C20_CountWithComparedColumn ==
  SharedNonKeyColumns # {} => C20_CountMatchingRows

\* C16: sample_mismatch(column, n) returns at most min(n, the number of
\* matched rows whose flag for the column is false) rows; every returned row
\* is a matched row whose flag for the column is false, no matched row is
\* returned twice, and the columns are the join columns followed by the df1
\* and the df2 version of the column.
C16_SampleMismatch ==
  Called("sample_mismatch") =>
    LET c == cmp.column
        res == cmp.result
        njoin == Len(self_join_columns)
        mismatching == {k \in DOMAIN intersect_rows :
                          intersect_rows[k].flags[c \o "_MATCH"] = "false"}
    IN  /\ Len(res.rows) <= Min(cmp.sample_count, Cardinality(mismatching))
        /\ \A i \in DOMAIN res.rows :
             /\ res.rows[i].src \in mismatching
             /\ res.rows[i].key = KeyOf(intersect_rows[res.rows[i].src].left,
                                        self_join_columns)
             /\ res.rows[i].col_1 = intersect_rows[res.rows[i].src].left[c]
             /\ res.rows[i].col_2 = intersect_rows[res.rows[i].src].right[c]
        /\ \A i, j \in DOMAIN res.rows :
             res.rows[i].src = res.rows[j].src => i = j
        /\ Len(res.columns) = njoin + 2
        /\ SubSeq(res.columns, 1, njoin) = self_join_columns
        /\ <<res.columns[njoin + 1], res.columns[njoin + 2]>>
             \in {<<c \o "_df1", c \o "_df2">>, <<c \o " (df1)", c \o " (df2)">>}

\* C16's case: one matched row that matches and one that does not; a sample
\* of up to two rows holds the one row that does not match
C16_Witness ==
  /\ Called("sample_mismatch")
  /\ cmp.column = "V"
  /\ cmp.sample_count = 2
  /\ Len(intersect_rows) = 2
  /\ \E k \in DOMAIN intersect_rows : intersect_rows[k].flags["V_MATCH"] = "true"
  /\ Len(cmp.result.rows) = 1
  /\ intersect_rows[cmp.result.rows[1].src].flags["V_MATCH"] = "false"

\* the matched rows with a false flag in some compared column
RowsWithMismatch ==
  {k \in DOMAIN intersect_rows :
     \E c \in SharedNonKeyColumns : intersect_rows[k].flags[c \o "_MATCH"] = "false"}

\* C17: all_mismatch(ignore_matching_cols) returns exactly the matched rows
\* in which the flag of at least one compared column is false, the same rows
\* for both values of ignore_matching_cols; with ignore_matching_cols a
\* column is projected iff it has a false flag, and the join columns always.
C17_AllMismatch ==
  cmp.called = "all_mismatch" =>
    /\ cmp.raised = ""
    /\ {cmp.result.rows[i].src : i \in DOMAIN cmp.result.rows} = RowsWithMismatch
    /\ SeqToSet(self_join_columns) \subseteq SeqToSet(cmp.result.columns)
    /\ cmp.ignore_matching_cols =>
         \A c \in SharedNonKeyColumns :
            (c \o "_df1") \in SeqToSet(cmp.result.columns)
              <=> \E k \in DOMAIN intersect_rows :
                     intersect_rows[k].flags[c \o "_MATCH"] = "false"

\* C18: once construction has completed, a call of any query method leaves
\* column_stats, df1_unq_rows, df2_unq_rows, intersect_rows (its flag
\* columns included), _any_dupes and the two input relations unchanged.
C18_QueriesChangeNothing ==
  [][pc = "done" =>
       UNCHANGED <<column_stats, df1_unq_rows, df2_unq_rows, intersect_rows,
                   _any_dupes, args, pc>>]_vars

\* C18's case: a sample of mismatching rows has been drawn from an object
\* that holds a stat, a matched row with a false flag and a row of df1 alone
C18_Witness ==
  /\ pc = "done"
  /\ Called("sample_mismatch")
  /\ Len(cmp.result.rows) = 1
  /\ df1_unq_rows # <<>>
  /\ \E k \in DOMAIN intersect_rows : intersect_rows[k].flags["V_MATCH"] = "false"
  /\ StatsOf("V")[1].unequal_cnt = 1

(***************************************************************************)
(* _generate_id_within_group                                               *)
(***************************************************************************)
\* the rows of the same join-key group as row i that come before it in
\* the order of __index
EarlierInGroup(i) ==
  {m \in DOMAIN cmp.df.rows :
     /\ KeyOf(cmp.df.rows[m], cmp.join_columns) = KeyOf(cmp.df.rows[i], cmp.join_columns)
     /\ cmp.index[m] < cmp.index[i]}

\* C19: within each join-key group the ordinals 0..n-1 are assigned in
\* increasing numeric order of __index, with and without a null in the join
\* columns; the rows with a null key form a group of their own and every
\* row gets an ordinal.
C19_OrdinalsFollowIndex ==
  Called("_generate_id_within_group") =>
    /\ DOMAIN cmp.result = DOMAIN cmp.df.rows
    /\ \A i \in DOMAIN cmp.df.rows :
         cmp.result[i] = Cardinality(EarlierInGroup(i))

\* without a null in the join columns the ordinals follow __index
C19_FollowIndexWithoutNull ==
  ~NullCheck(cmp.df, cmp.join_columns) => C19_OrdinalsFollowIndex

\* on both paths every row gets an ordinal and a group of n rows gets the
\* ordinals 0..n-1, each once
C19_OrdinalsNumberEachGroup ==
  Called("_generate_id_within_group") =>
    /\ DOMAIN cmp.result = DOMAIN cmp.df.rows
    /\ \A i \in DOMAIN cmp.df.rows :
         LET group == {m \in DOMAIN cmp.df.rows :
                         KeyOf(cmp.df.rows[m], cmp.join_columns)
                           = KeyOf(cmp.df.rows[i], cmp.join_columns)}
         IN  {cmp.result[m] : m \in group} = 0..(Cardinality(group) - 1)

====
